---- MODULE Spec2Model ----
(***************************************************************************)
(* The login page of the Gravitino web console (web/src/app/login/page.js) *)
(* and the auth store it drives (@/lib/store/auth: loginAction,            *)
(* setIntervalIdAction, clearIntervalId, the refresh timer).               *)
(*                                                                         *)
(* The page is translated from its source.  The auth store is imported by  *)
(* the page but its source is not part of the tree; it is modelled from    *)
(* the specification's sections 4.2, 4.3 and 5 (Token Exchange Client and  *)
(* Session Refresh Scheduler).                                             *)
(***************************************************************************)
EXTENDS Integers, Sequences, FiniteSets, TLC

\* ---------------------------------------------------------------- bounds
\* number of valid submissions (loginAction dispatches) in one behaviour
MaxSubmissions == 2
\* number of timer handles the host hands out in one behaviour
MaxHandles == 2

\* ------------------------------------------------------- page.js: the form
Fields == {"grant_type", "client_id", "client_secret", "scope"}

\* page.js:38-43
defaultValues ==
  [grant_type |-> "client_credentials", client_id |-> "",
   client_secret |-> "", scope |-> ""]

\* what a user can put into a text field
Typed == {"", "a"}

\* page.js:45-50, the fields yup declares string().required()
schemaDropsScope == {"grant_type", "client_id", "client_secret"}
schema == {"grant_type", "client_id", "client_secret", "scope"}

\* yup string().required() rejects the empty string; the resolver returns the
\* set of fields in error (page.js:65)
yupResolver(data) == {f \in schema : data[f] = ""}

\* page.js:110-117: the grant_type TextField is rendered disabled, the three
\* others are not
noDisabledFields == {}
disabledFields == {"grant_type"}

\* ------------------------------------------- auth store: the scheduler
\* The scheduler is [intervalId, timers, nextHandle, log, by]:
\*   intervalId  store.auth.intervalId, 0 when none is stored
\*   timers      the handles the host timer facility holds live
\*   nextHandle  the handle the host hands out next
\*   log         the cancel/create events of the last operation on it
\*   by          the caller of the last operation on it
NoInterval == 0

idle(s) == s.timers = {}

\* clearIntervalId, the scheduler's "clear": cancel the stored handle; a no-op
\* when none is stored
clearIntervalId(s) ==
  IF s.intervalId # NoInterval
  THEN [s EXCEPT !.timers = @ \ {s.intervalId}, !.intervalId = NoInterval,
                 !.log = Append(@, [op |-> "cancel", h |-> s.intervalId])]
  ELSE s

\* the host's setInterval plus the store's record of the returned handle
setInterval(s) ==
  [s EXCEPT !.timers = @ \cup {s.nextHandle}, !.intervalId = s.nextHandle,
            !.nextHandle = @ + 1,
            !.log = Append(@, [op |-> "create", h |-> s.nextHandle])]

\* setIntervalIdAction, the scheduler's start: any pre-existing handle is
\* cancelled before the new one is created
armCancelAfterCreate(s) ==
  LET c == setInterval(s) IN
  IF s.intervalId # NoInterval
  THEN [c EXCEPT !.timers = @ \ {s.intervalId},
                 !.log = Append(@, [op |-> "cancel", h |-> s.intervalId])]
  ELSE c
setIntervalIdAction(s) == setInterval(clearIntervalId(s))

\* ------------------------------------------------------------------ state
VARIABLES
  mounted,     \* the LoginPage component is mounted
  form,        \* react-hook-form field values
  mountGen,    \* the generation counter as of the mount of the page
  effectDep,   \* store.intervalId as of the last run of the effect
  sched,       \* the scheduler (above)
  auth,        \* [authToken, generation]: the session slot of the store
  subs,        \* the onSubmit invocations, by generation
  refreshing,  \* handles whose refresh exchange is in flight
  sinceFail,   \* a refresh has failed and no login was submitted since
  errors       \* the field errors onError was handed in the last step, if any

vars == <<mounted, form, mountGen, effectDep, sched, auth, subs, refreshing,
          sinceFail, errors>>

Gens == 1..MaxSubmissions
NoDep == -1
NoToken == [gen |-> 0, via |-> 0]

NoSub == [pc |-> "none", data |-> defaultValues, log |-> <<>>,
          ok |-> FALSE]

Init ==
  /\ mounted = FALSE
  /\ form = defaultValues
  /\ mountGen = 0
  /\ effectDep = NoDep
  /\ sched = [intervalId |-> NoInterval, timers |-> {}, nextHandle |-> 1,
              log |-> <<>>, by |-> "none"]
  /\ auth = [authToken |-> NoToken, generation |-> 0]
  /\ subs = [g \in Gens |-> NoSub]
  /\ refreshing = {}
  /\ sinceFail = FALSE
  /\ errors = {}

\* the effect of page.js:68-72 has a run outstanding: on mount, and whenever
\* its dependency store.intervalId differs from the value of its last run
EffectPending == mounted /\ effectDep # sched.intervalId

\* an operation on the scheduler starts: its caller, and an empty event log
begin(s, who) == [s EXCEPT !.log = <<>>, !.by = who]

\* ------------------------------------------------- auth store: the session
\* the completion of the exchange a login started: a failure creates no
\* session, and the result of a login that a newer login has superseded is
\* discarded
loginSettle(a, g, ok) ==
  IF ok /\ g = a.generation
  THEN [a EXCEPT !.authToken = [gen |-> g, via |-> 0]]
  ELSE a

\* a refresh is stale once the handle that fired it is no longer the stored one
staleRefresh(s, h) == s.intervalId # h

\* --------------------------------------------------- page.js: the component
\* the page is rendered: useForm starts from defaultValues (page.js:57-66) and
\* the effect runs once after the first render
Mount ==
  /\ ~mounted
  /\ mounted' = TRUE
  /\ form' = defaultValues
  /\ mountGen' = auth.generation
  /\ effectDep' = NoDep
  /\ errors' = {}
  /\ UNCHANGED <<sched, auth, subs, refreshing, sinceFail>>

\* navigation away from /login; the onSubmit calls in flight keep running but
\* their form is gone
Unmount ==
  /\ mounted
  /\ mounted' = FALSE
  /\ form' = defaultValues
  /\ mountGen' = 0
  /\ effectDep' = NoDep
  /\ errors' = {}
  /\ UNCHANGED <<sched, auth, subs, refreshing, sinceFail>>

\* page.js:68-72
useEffectWithoutGuard ==
  /\ EffectPending
  /\ effectDep' = sched.intervalId
  /\ sched' = clearIntervalId(begin(sched, "useEffect"))
  /\ errors' = {}
  /\ UNCHANGED <<mounted, form, mountGen, auth, subs, refreshing, sinceFail>>
useEffect ==
  /\ EffectPending
  /\ effectDep' = sched.intervalId
  /\ IF sched.intervalId # NoInterval
     THEN sched' = clearIntervalId(begin(sched, "useEffect"))
     ELSE UNCHANGED sched
  /\ errors' = {}
  /\ UNCHANGED <<mounted, form, mountGen, auth, subs, refreshing, sinceFail>>

\* a Controller's onChange (page.js:105-185); mode 'onChange' revalidates the
\* changed field.  Pending effects are flushed before an input event is handled.
onChange(f, v) ==
  /\ mounted /\ ~EffectPending
  /\ f \notin disabledFields
  /\ v # form[f]
  /\ form' = [form EXCEPT ![f] = v]
  /\ errors' = {}
  /\ UNCHANGED <<mounted, mountGen, effectDep, sched, auth, subs, refreshing, sinceFail>>

\* page.js:102 handleSubmit(onSubmit, onError): the resolver decides which of
\* the two callbacks runs.  onError (page.js:81-83) only logs; onSubmit
\* (page.js:74-79) runs up to its first await: loginAction is dispatched with
\* the form's data and the exchange is in flight.
handleSubmit ==
  /\ mounted /\ ~EffectPending
  /\ LET errs == yupResolver(form)
         g == auth.generation + 1 IN
     IF errs = {}
     THEN /\ g \in Gens
          /\ auth' = [auth EXCEPT !.generation = g]
          /\ subs' = [subs EXCEPT ![g] =
                        [pc |-> "awaitLogin", data |-> form,
                         log |-> <<"loginAction">>, ok |-> FALSE]]
          /\ sinceFail' = FALSE
          /\ errors' = {}
     ELSE /\ errors' = errs
          /\ UNCHANGED <<auth, subs, sinceFail>>
  /\ UNCHANGED <<mounted, form, mountGen, effectDep, sched, refreshing>>

\* the exchange of loginAction settles, with a session or with an AuthError
loginFulfilled(g) ==
  /\ subs[g].pc = "awaitLogin"
  /\ auth' = loginSettle(auth, g, TRUE)
  /\ subs' = [subs EXCEPT ![g].pc = "loginSettled", ![g].ok = TRUE,
                          ![g].log = Append(@, "loginSettled")]
  /\ errors' = {}
  /\ UNCHANGED <<mounted, form, mountGen, effectDep, sched, refreshing, sinceFail>>

loginRejected(g) ==
  /\ subs[g].pc = "awaitLogin"
  /\ auth' = loginSettle(auth, g, FALSE)
  /\ subs' = [subs EXCEPT ![g].pc = "loginSettled", ![g].ok = FALSE,
                          ![g].log = Append(@, "loginSettled")]
  /\ errors' = {}
  /\ UNCHANGED <<mounted, form, mountGen, effectDep, sched, refreshing, sinceFail>>

\* page.js:75: onSubmit goes on only once the dispatch of loginAction settled
loginNotAwaited(sub) == sub.pc \in {"awaitLogin", "loginSettled"}
loginAwaited(sub) == sub.pc = "loginSettled"

\* page.js:76: onSubmit resumes after the first await and dispatches
\* setIntervalIdAction, whatever the outcome of the login was
onSubmitSetsIntervalItself(g) ==
  /\ loginAwaited(subs[g])
  /\ sched.nextHandle <= MaxHandles
  /\ sched' = setInterval(begin(sched, "onSubmit"))
  /\ subs' = [subs EXCEPT ![g].pc = "awaitInterval",
                          ![g].log = Append(@, "setIntervalIdAction")]
  /\ errors' = {}
  /\ UNCHANGED <<mounted, form, mountGen, effectDep, auth, refreshing, sinceFail>>
onSubmitSetInterval(g) ==
  /\ loginAwaited(subs[g])
  /\ sched.nextHandle <= MaxHandles
  /\ sched' = setIntervalIdAction(begin(sched, "onSubmit"))
  /\ subs' = [subs EXCEPT ![g].pc = "awaitInterval",
                          ![g].log = Append(@, "setIntervalIdAction")]
  /\ errors' = {}
  /\ UNCHANGED <<mounted, form, mountGen, effectDep, auth, refreshing, sinceFail>>

\* page.js:78: onSubmit resumes after the second await and resets the form to
\* the submitted values
onSubmitReset(g) ==
  /\ subs[g].pc = "awaitInterval"
  /\ form' = IF mounted /\ g > mountGen THEN subs[g].data ELSE form
  /\ subs' = [subs EXCEPT ![g].pc = "done", ![g].ok = FALSE,
                          ![g].log = Append(@, "reset")]
  /\ errors' = {}
  /\ UNCHANGED <<mounted, mountGen, effectDep, sched, auth, refreshing, sinceFail>>

\* ------------------------------------------- auth store: refresh and logout
\* the timer fires and a refresh exchange starts; a handle has at most one
\* refresh pending
timerFires(h) ==
  /\ h \in sched.timers
  /\ h \notin refreshing
  /\ refreshing' = refreshing \cup {h}
  /\ errors' = {}
  /\ UNCHANGED <<mounted, form, mountGen, effectDep, sched, auth, subs, sinceFail>>

\* the refresh succeeds: the token is replaced and the timer rescheduled,
\* unless the result is stale
refreshFulfilled(h) ==
  /\ h \in refreshing
  /\ refreshing' = refreshing \ {h}
  /\ IF staleRefresh(sched, h)
     THEN UNCHANGED <<sched, auth>>
     ELSE /\ sched.nextHandle <= MaxHandles
          /\ sched' = setIntervalIdAction(begin(sched, "refreshToken.fulfilled"))
          /\ auth' = [auth EXCEPT !.authToken.via = h]
  /\ errors' = {}
  /\ UNCHANGED <<mounted, form, mountGen, effectDep, subs, sinceFail>>

\* the refresh fails: the session is cancelled, back to Idle, with no retry
refreshRejected(h) ==
  /\ h \in refreshing
  /\ refreshing' = refreshing \ {h}
  /\ IF staleRefresh(sched, h)
     THEN UNCHANGED <<sched, auth, sinceFail>>
     ELSE /\ sched' = clearIntervalId(begin(sched, "refreshToken.rejected"))
          /\ auth' = [auth EXCEPT !.authToken = NoToken]
          /\ sinceFail' = TRUE
  /\ errors' = {}
  /\ UNCHANGED <<mounted, form, mountGen, effectDep, subs>>

\* logout: explicit cancellation, the session is destroyed
logoutAction ==
  /\ auth.authToken # NoToken \/ sched.intervalId # NoInterval
  /\ sched' = clearIntervalId(begin(sched, "logoutAction"))
  /\ auth' = [auth EXCEPT !.authToken = NoToken]
  /\ errors' = {}
  /\ UNCHANGED <<mounted, form, mountGen, effectDep, subs, refreshing, sinceFail>>

Handles == 1..MaxHandles

Next ==
  \/ Mount
  \/ Unmount
  \/ useEffect
  \/ \E f \in Fields, v \in Typed : onChange(f, v)
  \/ handleSubmit
  \/ \E g \in Gens : loginFulfilled(g)
  \/ \E g \in Gens : loginRejected(g)
  \/ \E g \in Gens : onSubmitSetInterval(g)
  \/ \E g \in Gens : onSubmitReset(g)
  \/ \E h \in Handles : timerFires(h)
  \/ \E h \in Handles : refreshFulfilled(h)
  \/ \E h \in Handles : refreshRejected(h)
  \/ logoutAction

Spec == Init /\ [][Next]_vars

\* ------------------------------------------------------------------ claims
Live == sched.timers
AnyEmpty(data) == \E f \in Fields : data[f] = ""
IsPrefix(s, t) == Len(s) <= Len(t) /\ \A i \in 1..Len(s) : s[i] = t[i]
Created == sched'.timers \ sched.timers

InvalidSubmissionRejected ==
  [][AnyEmpty(form) =>
       /\ auth'.generation = auth.generation
       /\ errors' # {} =>
            /\ errors' = {f \in Fields : form[f] = ""}
            /\ UNCHANGED <<sched, auth, subs, refreshing, form>>]_vars

\* C2 witness: onError has just run for a form whose scope alone is empty.
OnErrorRan == errors = {"scope"} /\ form.client_id = "a"

\* C3 (as claimed): the step in which the onSubmit of a failed login resumes
\* arms no timer, so the scheduler is not moved from Idle to Active by a login
\* whose exchange failed.
NoTimerAfterFailedLogin ==
  [][\A g \in Gens :
       (subs[g].pc = "loginSettled" /\ ~subs[g].ok /\ subs'[g] # subs[g])
         => Created = {}]_vars

\* C4 (as claimed): once a scheduled refresh has failed, and until a login is
\* submitted afresh, the scheduler is Idle, so that no timer can fire and start
\* a further exchange.
IdleAfterRefreshFailure == sinceFail => idle(sched)

\* C5: in every step that creates a timer handle, each handle that was live
\* before the step is cancelled earlier in that step than the new one is created.
CancelBeforeCreate ==
  [][\A h \in Created : \A h0 \in Live :
       \E i, j \in 1..Len(sched'.log) :
         /\ i < j
         /\ sched'.log[i] = [op |-> "cancel", h |-> h0]
         /\ sched'.log[j] = [op |-> "create", h |-> h]]_vars

\* C5 witness: the last operation on the scheduler replaced a live handle.
HandleReplaced ==
  /\ Len(sched.log) = 2
  /\ sched.log[1].op = "cancel"
  /\ sched.log[2].op = "create"
  /\ sched.log[2].h \in Live

\* C6 (as claimed): the scheduler leaves Active for Idle only in a step of
\* logout or of a failed refresh.
ActiveLeftOnlyByLogoutOrFailure ==
  [][(~idle(sched) /\ idle(sched'))
       => sched'.by \in {"logoutAction", "refreshToken.rejected"}]_vars

\* C7 (as claimed): the completion of a stale call changes neither the token nor
\* the set of live timers: no step of the onSubmit of a superseded login, and no
\* settling of a refresh whose handle is no longer the stored one.
StaleCompletionDiscarded ==
  [][/\ \A g \in Gens :
          (g < auth.generation /\ subs'[g] # subs[g])
            => (auth'.authToken = auth.authToken /\ Created = {})
     /\ \A h \in refreshing \ refreshing' :
          staleRefresh(sched, h)
            => (auth'.authToken = auth.authToken /\ sched'.timers = Live)]_vars

RequestSatisfiesInvariant ==
  \A g \in Gens :
    subs[g].pc # "none" =>
      /\ subs[g].data.grant_type = "client_credentials"
      /\ ~AnyEmpty(subs[g].data)

\* C9 witness: a login is in flight and the user has since emptied a field.
RequestInFlight ==
  \E g \in Gens : subs[g].pc = "awaitLogin" /\ mounted /\ form.scope = ""

\* C10: each onSubmit runs loginAction, setIntervalIdAction and reset once each
\* and in this order, the second after the first has settled, and the reset puts
\* the submitted values into the form the submission came from.
onSubmitOrder == <<"loginAction", "loginSettled", "setIntervalIdAction", "reset">>
OnSubmitStepsInOrder ==
  [][\A g \in Gens :
       /\ IsPrefix(subs'[g].log, onSubmitOrder)
       /\ subs'[g].pc = "done" => subs'[g].log = onSubmitOrder
       /\ (subs[g].pc # "done" /\ subs'[g].pc = "done" /\ mounted /\ g > mountGen)
            => form' = subs[g].data]_vars

\* C10 witness: an onSubmit has run to its end and the form it came from holds
\* the submitted values.
SubmissionDone ==
  \E g \in Gens : subs[g].pc = "done" /\ mounted /\ g > mountGen /\ form = subs[g].data

====
